---- MODULE Spec2Model ----
(***************************************************************************)
(* A model of config/persona_utils.py: the PersonaManager catalog of       *)
(* persona documents (parse_readme, load_personas, save_persona,           *)
(* save_personas, get_persona, update_persona_image).                      *)
(*                                                                         *)
(* Text is a sequence of atoms.  The characters the code inspects          *)
(* (newline, space, "#", "-", ":", "_" and letters) are single atoms;      *)
(* a word the code only copies or compares as a whole ("Metadata",         *)
(* "image", "MALE", ...) is one atom.                                      *)
(***************************************************************************)
EXTENDS Integers, Sequences, FiniteSets, TLC

NL == "\n"
SP == " "

\* the characters str.strip() and str.split() treat as whitespace
Whitespace == {SP, NL}

----------------------------------------------------------------------------
(* Python str operations, on sequences of atoms *)

Take(s, n) == SubSeq(s, 1, n)

Drop(s, n) == SubSeq(s, n + 1, Len(s))

\* s.startswith(p)
StartsWith(s, p) == Len(p) <= Len(s) /\ SubSeq(s, 1, Len(p)) = p

\* s.find(sep), 1-based; 0 when sep does not occur
Find(s, sep) ==
  LET I == {i \in 1..(Len(s) - Len(sep) + 1) : SubSeq(s, i, i + Len(sep) - 1) = sep}
  IN  IF I = {} THEN 0 ELSE CHOOSE i \in I : \A j \in I : i <= j

\* s.split(sep); SplitAt: with i the place of the first sep in s
RECURSIVE Split(_, _)
SplitAt(s, sep, i) ==
  IF i = 0 THEN <<s>>
  ELSE <<Take(s, i - 1)>> \o Split(Drop(s, i + Len(sep) - 1), sep)

Split(s, sep) == SplitAt(s, sep, Find(s, sep))

Split1At(s, sep, i) ==
  IF i = 0 THEN <<s>> ELSE <<Take(s, i - 1), Drop(s, i + Len(sep) - 1)>>

\* s.split(sep, 1)
Split1(s, sep) == Split1At(s, sep, Find(s, sep))

\* s.replace(old, new): the non-overlapping occurrences, left to right
RECURSIVE Replace(_, _, _)
ReplaceAt(s, old, new, i) ==
  IF i = 0 THEN s
  ELSE Take(s, i - 1) \o new \o Replace(Drop(s, i + Len(old) - 1), old, new)

Replace(s, old, new) == ReplaceAt(s, old, new, Find(s, old))

RECURSIVE LStrip(_)
LStrip(s) == IF s # <<>> /\ Head(s) \in Whitespace THEN LStrip(Tail(s)) ELSE s

RECURSIVE RStrip(_)
RStrip(s) ==
  IF s # <<>> /\ s[Len(s)] \in Whitespace THEN RStrip(Take(s, Len(s) - 1)) ELSE s

\* s.strip()
Strip(s) == RStrip(LStrip(s))

\* s.split() with no separator: the maximal runs of non-whitespace
RECURSIVE SplitWs(_)
\* the end of the first word of t
WordEnd(t, W) == IF W = {} THEN Len(t) ELSE (CHOOSE i \in W : \A j \in W : i <= j) - 1

FirstWord(t, e) == <<Take(t, e)>> \o SplitWs(Drop(t, e))

Words(t) ==
  IF t = <<>> THEN <<>>
  ELSE FirstWord(t, WordEnd(t, {i \in 1..Len(t) : t[i] \in Whitespace}))

SplitWs(s) == Words(LStrip(s))

\* sep.join(parts)
RECURSIVE Join(_, _)
Join(parts, sep) ==
  IF parts = <<>> THEN <<>>
  ELSE IF Len(parts) = 1 THEN parts[1]
  ELSE parts[1] \o sep \o Join(Tail(parts), sep)

LowerChar(c) == IF c = "A" THEN "a" ELSE IF c = "B" THEN "b" ELSE IF c = "N" THEN "n" ELSE c

\* s.lower()
Lower(s) == [i \in 1..Len(s) |-> LowerChar(s[i])]

\* the set of a list's elements
Elems(s) == {s[i] : i \in 1..Len(s)}

----------------------------------------------------------------------------
(* parse_readme *)

\* the value of a call that raised
Raised(e) == [raised |-> e]

IsRaised(v) == "raised" \in DOMAIN v

\* the defaults of the metadata section
DefaultMetadata ==
  [image |-> <<>>, entry_message |-> <<>>, cartesia_voice_id |-> <<>>,
   gender |-> <<>>, relevant_links |-> <<>>]

\* metadata[key] = value.strip(), or the list of links; only the five keys
\* parse_readme returns are kept
SetMetadata(metadata, key, value) ==
  IF key = <<"relevant_links">> THEN [metadata EXCEPT !.relevant_links = SplitWs(value)]
  ELSE IF key = <<"image">> THEN [metadata EXCEPT !.image = value]
  ELSE IF key = <<"entry_message">> THEN [metadata EXCEPT !.entry_message = value]
  ELSE IF key = <<"cartesia_voice_id">> THEN [metadata EXCEPT !.cartesia_voice_id = value]
  ELSE IF key = <<"gender">> THEN [metadata EXCEPT !.gender = value]
  ELSE metadata

KeyValue(metadata, key_value) ==
  IF Len(key_value) # 2 THEN metadata
  ELSE SetMetadata(metadata, key_value[1], Strip(key_value[2]))

\* one line of the Metadata section
MetadataLine(metadata, line) ==
  IF ~StartsWith(line, <<"-", SP>>) THEN metadata
  ELSE KeyValue(metadata, Split1(Drop(line, 2), <<":", SP>>))

RECURSIVE MetadataLines(_, _)
MetadataLines(metadata, lines) ==
  IF lines = <<>> THEN metadata
  ELSE MetadataLines(MetadataLine(metadata, Head(lines)), Tail(lines))

\* the first section that starts with "Metadata" is read, the others are not
RECURSIVE ParseMetadata(_)
ParseMetadata(sections) ==
  IF sections = <<>> THEN DefaultMetadata
  ELSE IF StartsWith(Head(sections), <<"Metadata">>)
    THEN MetadataLines(DefaultMetadata, Split(Head(sections), <<NL>>))
  ELSE ParseMetadata(Tail(sections))

\* the dict parse_readme returns
Parsed(name, prompt, metadata) ==
  [name |-> name,
   prompt |-> prompt,
   image |-> metadata.image,
   entry_message |-> metadata.entry_message,
   cartesia_voice_id |-> metadata.cartesia_voice_id,
   gender |-> metadata.gender,
   relevant_links |-> metadata.relevant_links]

\* body: sections[0].split("\n\n", 1); its [1] raises IndexError when there is
\* no blank line
ParseSections(sections, body) ==
  IF Len(body) < 2 THEN Raised("IndexError")
  ELSE Parsed(Strip(Replace(Split1(sections[1], <<NL>>)[1], <<"#", SP>>, <<>>)),
              Strip(body[2]),
              ParseMetadata(sections))

SplitSections(sections) == ParseSections(sections, Split1(sections[1], <<NL, NL>>))

parse_readme(content) == SplitSections(Split(content, <<NL, "#", "#", SP>>))

----------------------------------------------------------------------------
(* the constants imported from config.prompts, each an opaque text *)

DEFAULT_CHARACTERISTICS == << <<"characteristic1">>, <<"characteristic2">> >>

DEFAULT_VOICE_CHARACTERISTICS == << <<"voice1">> >>

DEFAULT_ENTRY_MESSAGE == <<"DEFAULT_ENTRY_MESSAGE">>

PERSONA_INTERACTION_INSTRUCTIONS == <<"PERSONA_INTERACTION_INSTRUCTIONS">>

\* self.personas_dir
personas_dir == <<"personas_dir">>

----------------------------------------------------------------------------
(* dictionaries are functions on the keys that are set *)

\* d.get(k, default)
Get(d, k, default) == IF k \in DOMAIN d THEN d[k] ELSE default

\* d[k] = v, on a copy of d
Put(d, k, v) == [x \in DOMAIN d \cup {k} |-> IF x = k THEN v ELSE d[x]]

EmptyDict == [k \in {} |-> k]

\* the catalog self.personas is a dict in insertion order: a list of entries
\* [key, data] with distinct keys
Keys(catalog) == [i \in 1..Len(catalog) |-> catalog[i].key]

HasKey(catalog, k) == \E i \in 1..Len(catalog) : catalog[i].key = k

Lookup(catalog, k) == catalog[CHOOSE i \in 1..Len(catalog) : catalog[i].key = k].data

\* personas[k] = data
Store(catalog, k, data) ==
  IF HasKey(catalog, k)
    THEN [i \in 1..Len(catalog) |->
            IF catalog[i].key = k THEN [key |-> k, data |-> data] ELSE catalog[i]]
  ELSE Append(catalog, [key |-> k, data |-> data])

----------------------------------------------------------------------------
(* save_persona: the template *)

\* "\n".join(f"- {char}" for char in chars)
Bullets(chars) == Join([i \in 1..Len(chars) |-> <<"-", SP>> \o chars[i]], <<NL>>)

\* the metadata written: the caller's value, else the existing document's, else
\* the default; choice is the value random.choice(["MALE", "FEMALE"]) drew
MergeMetadata(persona, existing_metadata, choice) ==
  [image |-> Get(persona, "image", Get(existing_metadata, "image", <<>>)),
   entry_message |->
     Get(persona, "entry_message",
         Get(existing_metadata, "entry_message", DEFAULT_ENTRY_MESSAGE)),
   cartesia_voice_id |->
     Get(persona, "cartesia_voice_id", Get(existing_metadata, "cartesia_voice_id", <<>>)),
   gender |-> Get(persona, "gender", Get(existing_metadata, "gender", choice)),
   relevant_links |->
     Get(persona, "relevant_links", Get(existing_metadata, "relevant_links", <<>>))]

readme_content(persona, metadata) ==
  <<"#", SP>> \o persona.name \o <<NL, NL>> \o persona.prompt
  \o <<NL, NL, "#", "#", SP, "Characteristics", NL>> \o Bullets(DEFAULT_CHARACTERISTICS)
  \o <<NL, NL, "#", "#", SP, "Voice", NL>> \o persona.name
  \o <<SP, "speaks", SP, "with", ":", NL>> \o Bullets(DEFAULT_VOICE_CHARACTERISTICS)
  \o <<NL, NL, "#", "#", SP, "Metadata", NL>>
  \o <<"-", SP, "image", ":", SP>> \o metadata.image \o <<NL>>
  \o <<"-", SP, "entry_message", ":", SP>> \o metadata.entry_message \o <<NL>>
  \o <<"-", SP, "cartesia_voice_id", ":", SP>> \o metadata.cartesia_voice_id \o <<NL>>
  \o <<"-", SP, "gender", ":", SP>> \o metadata.gender \o <<NL>>
  \o <<"-", SP, "relevant_links", ":", SP>> \o Join(metadata.relevant_links, <<SP>>)
  \o <<NL>>

\* a file: exists, and its text when it does
NoFile == [exists |-> FALSE, text |-> <<>>]

File(text) == [exists |-> TRUE, text |-> text]

\* save_persona(key, persona) on the document readme_file; io_ok: the directory
\* can be made and the file opened.  The result is the value returned and the
\* document afterwards.
\* lines 146-156: the metadata of the document that exists
ExistingMetadata(existing_persona) ==
  [image |-> existing_persona.image,
   entry_message |-> existing_persona.entry_message,
   cartesia_voice_id |-> existing_persona.cartesia_voice_id,
   gender |-> existing_persona.gender,
   relevant_links |-> existing_persona.relevant_links]

\* existing_persona: parse_readme of the document that exists.  Any exception
\* (the directory or the file cannot be written, the document that exists does
\* not parse, persona has no name or prompt) is caught and False returned.
SaveOver(readme_file, persona, existing_persona, choice, io_ok) ==
  IF ~io_ok \/ (readme_file.exists /\ IsRaised(existing_persona))
     \/ "name" \notin DOMAIN persona \/ "prompt" \notin DOMAIN persona
    THEN [returned |-> FALSE, file |-> readme_file]
  ELSE [returned |-> TRUE,
        file |-> File(readme_content(persona,
                   MergeMetadata(persona,
                                 IF readme_file.exists
                                   THEN ExistingMetadata(existing_persona)
                                 ELSE EmptyDict,
                                 choice)))]

save_persona(readme_file, persona, choice, io_ok) ==
  SaveOver(readme_file, persona,
           IF readme_file.exists THEN parse_readme(readme_file.text) ELSE EmptyDict,
           choice, io_ok)

----------------------------------------------------------------------------
(* get_persona *)

\* name.lower().replace(" ", "_")
FolderName(name) == Replace(Lower(name), <<SP>>, <<"_">>)

\* len(words & set(persona_key.split("_")))
Overlap(words, persona_key) ==
  Cardinality(words \cap Elems(Split(persona_key, <<"_">>)))

RECURSIVE ClosestLoop(_, _, _, _, _)
\* with >= for >: a later key with an equal overlap replaces the best
ClosestLoop_later_ties(keys, words, i, closest_match, max_overlap) ==
  IF i > Len(keys) THEN [closest_match |-> closest_match, max_overlap |-> max_overlap]
  ELSE IF Overlap(words, keys[i]) >= max_overlap
    THEN ClosestLoop(keys, words, i + 1, i, Overlap(words, keys[i]))
  ELSE ClosestLoop(keys, words, i + 1, closest_match, max_overlap)

\* the loop over self.personas.keys(); closest_match is an index into keys, 0 for None
ClosestLoop(keys, words, i, closest_match, max_overlap) ==
  IF i > Len(keys) THEN [closest_match |-> closest_match, max_overlap |-> max_overlap]
  ELSE IF Overlap(words, keys[i]) > max_overlap
    THEN ClosestLoop(keys, words, i + 1, i, Overlap(words, keys[i]))
  ELSE ClosestLoop(keys, words, i + 1, closest_match, max_overlap)

\* lines 259-271: what is done to the copy before it is returned
Finish(persona, given, name) ==
  Put(Put(IF Get(persona, "image", <<>>) = <<>> THEN Put(persona, "image", <<>>)
          ELSE persona,
          "prompt", persona.prompt \o PERSONA_INTERACTION_INSTRUCTIONS),
      "path",
      personas_dir \o <<"/">>
        \o (IF given /\ name # <<>> THEN FolderName(name) ELSE FolderName(persona.name)))

\* get_persona(name); given: a name was passed (not None); pick: the index
\* random.choice drew.  selected is the index of the catalog entry copied.
\* the dict itself instead of a copy of it
Copy_alias(persona) == [dict |-> persona, shared |-> TRUE]

\* dict.copy(): a new dict; shared says whether assignments to it are
\* assignments to the catalog's dict
Copy(persona) == [dict |-> persona, shared |-> FALSE]

\* persona: the dict the assignments of lines 259-270 are made to; the result
\* carries the catalog as the call leaves it
Assigned(catalog, selected, persona, given, name) ==
  [outcome |-> "return", selected |-> selected,
   value |-> Finish(persona.dict, given, name),
   personas |-> IF persona.shared
                  THEN Store(catalog, catalog[selected].key,
                             Finish(persona.dict, given, name))
                ELSE catalog]

Returned(catalog, selected, given, name) ==
  Assigned(catalog, selected, Copy(catalog[selected].data), given, name)

\* the call raised
Failed(catalog, e) ==
  [outcome |-> e, selected |-> 0, value |-> EmptyDict, personas |-> catalog]

\* lines 246-254, after the loop
Closest(catalog, given, name, best) ==
  IF best.closest_match # 0 /\ best.max_overlap >= 1
    THEN Returned(catalog, best.closest_match, given, name)
  ELSE Failed(catalog, "KeyError")

\* without the exact match of the folder name
ByFolderName_closest_only(catalog, given, name, folder_name) ==
  Closest(catalog, given, name,
          ClosestLoop(Keys(catalog), Elems(SplitWs(Lower(name))), 1, 0, 0))

\* lines 230-254
ByFolderName(catalog, given, name, folder_name) ==
  IF HasKey(catalog, folder_name)
    THEN Returned(catalog, CHOOSE i \in 1..Len(catalog) : catalog[i].key = folder_name,
                  given, name)
  ELSE Closest(catalog, given, name,
               ClosestLoop(Keys(catalog), Elems(SplitWs(Lower(name))), 1, 0, 0))

get_persona(catalog, given, name, pick) ==
  IF given /\ name # <<>> THEN ByFolderName(catalog, given, name, FolderName(name))
  ELSE IF catalog = <<>>
    THEN Failed(catalog, "IndexError")
  ELSE Returned(catalog, pick, given, name)

----------------------------------------------------------------------------
(* load_personas *)

\* the markdown files of a persona directory other than README.md, in glob
\* order: [name, text]
OtherMarkdown(dir) ==
  IF dir = <<"a", "_", "b">> THEN << [name |-> <<"notes.md">>, text |-> <<"x", NL>>] >>
  ELSE <<>>

\* f"# Content from {file_path.name}\n\n{content}", when content is not empty
Block(name, content) ==
  IF content # <<>>
    THEN << <<"#", SP, "Content", SP, "from", SP>> \o name \o <<NL, NL>> \o content >>
  ELSE <<>>

RECURSIVE AdditionalBlocks(_)
AdditionalBlocks(files) ==
  IF files = <<>> THEN <<>>
  ELSE Block(Head(files).name, Strip(Head(files).text)) \o AdditionalBlocks(Tail(files))

load_additional_content(dir) == Join(AdditionalBlocks(OtherMarkdown(dir)), <<NL, NL>>)

\* the loop of load_personas over iterdir() in the order it lists the
\* directories; the value is the catalog returned, or the exception that leaves
\* the loop
RECURSIVE LoadLoop(_, _, _)
\* lines 119-126: an exception of parse_readme leaves the loop, and the except
\* clause raises it again
LoadOne(files, order, catalog, persona_data, additional_content) ==
  IF IsRaised(persona_data) THEN persona_data
  ELSE LoadLoop(files, Tail(order),
         Store(catalog, Head(order),
               IF additional_content # <<>>
                 THEN Put(persona_data, "additional_content", additional_content)
               ELSE persona_data))

LoadLoop(files, order, catalog) ==
  IF order = <<>> THEN [personas |-> catalog]
  ELSE IF ~files[Head(order)].exists THEN LoadLoop(files, Tail(order), catalog)
  ELSE LoadOne(files, order, catalog, parse_readme(files[Head(order)].text),
               load_additional_content(Head(order)))

\* root_ok: the personas directory can be listed
load_personas(files, order, root_ok) ==
  IF ~root_ok THEN Raised("OSError") ELSE LoadLoop(files, order, <<>>)

----------------------------------------------------------------------------
(* the bounds and the inputs *)

\* the longest name passed to get_persona
MaxQueryLen == 3

\* the number of calls that write documents
MaxWrites == 2

QueryChars == {"a", "b", "A", SP, "_"}

Queries == UNION {[1..n -> QueryChars] : n \in 0..MaxQueryLen}

\* the persona directories under personas_dir
Dirs == {<<"a", "_", "b">>, <<"A", "_", "b">>}

Orders == {o \in [1..Cardinality(Dirs) -> Dirs] : \A i, j \in DOMAIN o : o[i] = o[j] => i = j}

DocFull ==
  <<"#", SP, "A", SP, "b", NL, NL, "p", SP, "q", NL, NL,
    "#", "#", SP, "Metadata", NL,
    "-", SP, "image", ":", SP, "u", NL,
    "-", SP, "entry_message", ":", SP, "h", "i", NL,
    "-", SP, "cartesia_voice_id", ":", SP, "v", NL,
    "-", SP, "gender", ":", SP, "MALE", NL,
    "-", SP, "relevant_links", ":", SP, "l", SP, "m", NL>>

\* no sections
DocPlain == <<"#", SP, "b", NL, NL, "q">>

\* a title and no blank line
DocNoBody == <<"#", SP, "N", NL, "p">>

\* an empty title
DocNoName == <<"#", SP, NL, NL, "p">>

InitialFiles == {NoFile, File(DocFull), File(DocPlain), File(DocNoBody), File(DocNoName)}

\* the records passed to save_persona by callers other than the catalog
Records ==
  {[name |-> <<"N">>, prompt |-> <<"p">>],
   [name |-> <<"N">>, prompt |-> <<"p">>, image |-> <<"w">>],
   [name |-> <<"N">>, prompt |-> <<"p">>, gender |-> <<"FEMALE">>],
   [name |-> <<"N">>, prompt |-> <<"#", "#", SP, "r">>, image |-> <<"w">>]}

Images == {<<"w">>}

Genders == {<<"MALE">>, <<"FEMALE">>}

----------------------------------------------------------------------------
(* the state *)

VARIABLES
  fs,        \* the README.md of each persona directory
  personas,  \* self.personas of the manager, when there is one
  status,    \* "none": no manager; "ready": constructed; "failed": __init__ raised
  pc,        \* "idle", or "returned" when a call has returned to its caller
  ret,       \* the call that returned: its arguments and its result
  writes,    \* the calls made that write documents
  trip       \* a document on its way through parse_readme and the template

vars == <<fs, personas, status, pc, ret, writes, trip>>

NoTrip == [stage |-> "none"]

NoCall == [op |-> "none"]

Init ==
  /\ fs \in [Dirs -> InitialFiles]
  /\ personas = <<>>
  /\ status = "none"
  /\ pc = "idle"
  /\ ret = NoCall
  /\ writes = 0
  /\ trip = NoTrip

\* PersonaManager(personas_dir): __init__ calls load_personas
Constructed(order, root_ok, loaded) ==
  /\ personas' = IF IsRaised(loaded) THEN <<>> ELSE loaded.personas
  /\ status' = IF IsRaised(loaded) THEN "failed" ELSE "ready"
  /\ ret' = [op |-> "load_personas", order |-> order, root_ok |-> root_ok,
             outcome |-> IF IsRaised(loaded) THEN loaded.raised ELSE "return"]

Construct ==
  /\ pc = "idle"
  /\ \E order \in Orders, root_ok \in BOOLEAN :
       Constructed(order, root_ok, load_personas(fs, order, root_ok))
  /\ pc' = "returned"
  /\ UNCHANGED <<fs, writes, trip>>

Got(given, name, r) ==
  /\ personas' = r.personas
  /\ ret' = [op |-> "get_persona", given |-> given, name |-> name,
             outcome |-> r.outcome, selected |-> r.selected, value |-> r.value]

\* get_persona(name), or get_persona() when not given
GetPersona ==
  /\ pc = "idle"
  /\ status = "ready"
  /\ \E given \in BOOLEAN, name \in Queries, pick \in 1..Len(personas) + 1 :
       /\ given \/ name = <<>>
       /\ IF ~given /\ personas # <<>> THEN pick <= Len(personas) ELSE pick = 1
       /\ Got(given, name, get_persona(personas, given, name, pick))
  /\ pc' = "returned"
  /\ UNCHANGED <<fs, status, writes, trip>>

Saved(key, persona, choice, r) ==
  /\ fs' = [fs EXCEPT ![key] = r.file]
  /\ ret' = [op |-> "save_persona", key |-> key, persona |-> persona,
             choice |-> choice, before |-> fs[key], returned |-> r.returned]

\* save_persona(key, persona) called directly
SavePersona ==
  /\ pc = "idle"
  /\ status = "ready"
  /\ writes < MaxWrites
  /\ \E key \in Dirs, persona \in Records, choice \in Genders, io_ok \in BOOLEAN :
       Saved(key, persona, choice, save_persona(fs[key], persona, choice, io_ok))
  /\ pc' = "returned"
  /\ writes' = writes + 1
  /\ UNCHANGED <<personas, status, trip>>

ImageSaved(key, image, r) ==
  /\ fs' = [fs EXCEPT ![key] = r.file]
  /\ ret' = [op |-> "update_persona_image", key |-> key, image |-> image,
             before |-> fs[key], returned |-> r.returned]

\* lines 285-286; persona: self.personas[key] with the image set.  The record
\* has a gender, so the gender random.choice draws is not used.
ImageSet(key, image, io_ok, persona) ==
  /\ personas' = Store(personas, key, persona)
  /\ ImageSaved(key, image, save_persona(fs[key], persona, <<"MALE">>, io_ok))

\* update_persona_image(key, image_path)
UpdatePersonaImage ==
  /\ pc = "idle"
  /\ status = "ready"
  /\ writes < MaxWrites
  /\ \E key \in Dirs, image \in Images, io_ok \in BOOLEAN :
       IF HasKey(personas, key)
         THEN ImageSet(key, image, io_ok, Put(Lookup(personas, key), "image", image))
       ELSE /\ ret' = [op |-> "update_persona_image", key |-> key, image |-> image,
                       before |-> fs[key], returned |-> FALSE]
            /\ UNCHANGED <<personas, fs>>
  /\ pc' = "returned"
  /\ writes' = writes + 1
  /\ UNCHANGED <<status, trip>>

\* the loop of save_personas; io[i]: the i-th save can write.  results: the
\* calls of save_persona made so far, each with its key and what it returned.
RECURSIVE SaveLoop(_, _, _, _, _, _)
\* a loop that stops at the first save that fails
SaveNext_abort(catalog, io, i, files, success, results, r) ==
  IF r.returned
    THEN SaveLoop(catalog, io, i + 1, [files EXCEPT ![catalog[i].key] = r.file],
                  success,
                  Append(results, [key |-> catalog[i].key, returned |-> TRUE]))
  ELSE [files |-> files, success |-> FALSE,
        results |-> Append(results, [key |-> catalog[i].key, returned |-> FALSE])]

SaveNext(catalog, io, i, files, success, results, r) ==
  SaveLoop(catalog, io, i + 1, [files EXCEPT ![catalog[i].key] = r.file],
           success /\ r.returned,
           Append(results, [key |-> catalog[i].key, returned |-> r.returned]))

SaveLoop(catalog, io, i, files, success, results) ==
  IF i > Len(catalog)
    THEN [files |-> files, success |-> success, results |-> results]
  ELSE SaveNext(catalog, io, i, files, success, results,
                save_persona(files[catalog[i].key], catalog[i].data, <<"MALE">>, io[i]))

AllSaved(io, r) ==
  /\ fs' = r.files
  /\ ret' = [op |-> "save_personas", io |-> io, before |-> fs,
             returned |-> r.success, results |-> r.results]

\* save_personas()
SavePersonas ==
  /\ pc = "idle"
  /\ status = "ready"
  /\ writes < MaxWrites
  /\ \E io \in [1..Len(personas) -> BOOLEAN] :
       AllSaved(io, SaveLoop(personas, io, 1, fs, TRUE, <<>>))
  /\ pc' = "returned"
  /\ writes' = writes + 1
  /\ UNCHANGED <<personas, status, trip>>

\* the caller takes the result
Return ==
  /\ pc = "returned"
  /\ pc' = "idle"
  /\ ret' = NoCall
  /\ UNCHANGED <<fs, personas, status, writes, trip>>

Next ==
  \/ Construct
  \/ GetPersona
  \/ SavePersona
  \/ UpdatePersonaImage
  \/ SavePersonas
  \/ Return

Spec == Init /\ [][Next]_vars

----------------------------------------------------------------------------
(* the lookups alone: a manager is constructed and get_persona called *)

NextLookup ==
  \/ Construct
  \/ GetPersona
  \/ Return

LookupSpec == Init /\ [][NextLookup]_vars

----------------------------------------------------------------------------
(* the writes alone: a manager is constructed and documents are saved *)

NextWrite ==
  \/ Construct
  \/ SavePersona
  \/ UpdatePersonaImage
  \/ SavePersonas
  \/ Return

WriteSpec == Init /\ [][NextWrite]_vars

----------------------------------------------------------------------------
(* parse_readme and the template of save_persona, as functions of a document *)

\* the longest preamble of a document
MaxDocLen == 7

DocChars == {"#", SP, NL, "x"}

MetadataSection ==
  <<NL, "#", "#", SP, "Metadata", NL,
    "-", SP, "image", ":", SP, "u", NL,
    "-", SP, "gender", ":", SP, "MALE", NL,
    "-", SP, "relevant_links", ":", SP, "l", SP, SP, "m", NL,
    "-", SP, "entry_message", ":", SP, SP, "h", SP, "i", SP, NL,
    "-", SP, "color", ":", SP, "x", NL,
    "-", SP, "gender", NL>>

Documents ==
  {p \o t : p \in UNION {[1..n -> DocChars] : n \in 0..MaxDocLen},
            t \in {<<>>, MetadataSection}}

ParseInit ==
  /\ fs = [d \in Dirs |-> NoFile]
  /\ personas = <<>>
  /\ status = "none"
  /\ pc = "idle"
  /\ ret = NoCall
  /\ writes = 0
  /\ trip \in {[stage |-> "document", document |-> d] : d \in Documents}

\* parse_readme(document)
Parse ==
  /\ trip.stage = "document"
  /\ trip' = [stage |-> "parsed", document |-> trip.document,
              parsed |-> parse_readme(trip.document)]
  /\ UNCHANGED <<fs, personas, status, pc, ret, writes>>

\* save_persona(key, parsed) where no document exists: the template applied to
\* what parse_readme returned
Render ==
  /\ trip.stage = "parsed"
  /\ ~IsRaised(trip.parsed)
  /\ trip' = [stage |-> "rendered", document |-> trip.document, parsed |-> trip.parsed,
              rendered |-> save_persona(NoFile, trip.parsed, <<"MALE">>, TRUE).file.text]
  /\ UNCHANGED <<fs, personas, status, pc, ret, writes>>

\* parse_readme(rendered)
Reparse ==
  /\ trip.stage = "rendered"
  /\ trip' = [stage |-> "reparsed", document |-> trip.document, parsed |-> trip.parsed,
              rendered |-> trip.rendered, reparsed |-> parse_readme(trip.rendered)]
  /\ UNCHANGED <<fs, personas, status, pc, ret, writes>>

NextParse ==
  \/ Parse
  \/ Render
  \/ Reparse

ParseSpec == ParseInit /\ [][NextParse]_vars

----------------------------------------------------------------------------
(* the claims *)

\* a call of get_persona has returned to its caller
IsGet == pc = "returned" /\ ret.op = "get_persona"

\* the number of places in a prompt where the interaction instructions stand
SuffixCount(prompt) ==
  Cardinality({i \in 1..Len(prompt) :
                 SubSeq(prompt, i, i + Len(PERSONA_INTERACTION_INSTRUCTIONS) - 1)
                   = PERSONA_INTERACTION_INSTRUCTIONS})

EndsWithSuffix(prompt) ==
  /\ Len(prompt) >= Len(PERSONA_INTERACTION_INSTRUCTIONS)
  /\ SubSeq(prompt, Len(prompt) - Len(PERSONA_INTERACTION_INSTRUCTIONS) + 1, Len(prompt))
       = PERSONA_INTERACTION_INSTRUCTIONS

\* the record get_persona returned is the one stored under key, with the
\* instructions appended once
ReturnsStored(key) ==
  /\ ret.outcome = "return"
  /\ ret.value.name = Lookup(personas, key).name
  /\ ret.value.prompt = Lookup(personas, key).prompt \o PERSONA_INTERACTION_INSTRUCTIONS
  /\ EndsWithSuffix(ret.value.prompt)
  /\ SuffixCount(ret.value.prompt) = 1

\* C1 as stated: get_persona(key), for every key of the catalog, returns the
\* record stored under key: its name, and its prompt ending with the interaction
\* instructions exactly once.
C1_EveryKey ==
  (IsGet /\ ret.given /\ HasKey(personas, ret.name)) => ReturnsStored(ret.name)

\* C1 as amended: get_persona(key), for every key of the catalog that is its own
\* folder name (lowercase, no spaces), returns the record stored under key: its
\* name, and its prompt followed by the interaction instructions exactly once.
C1_FolderNameKey ==
  (IsGet /\ ret.given /\ HasKey(personas, ret.name) /\ FolderName(ret.name) = ret.name)
    => ReturnsStored(ret.name)

\* get_persona was called with a key that is its own folder name, of a catalog
\* of two records with different names
C1_Witness ==
  /\ IsGet /\ ret.given /\ HasKey(personas, ret.name) /\ FolderName(ret.name) = ret.name
  /\ ret.outcome = "return"
  /\ Len(personas) = 2
  /\ personas[1].data.name # personas[2].data.name

\* the words of a query: lowercased, split at whitespace
QueryWords(name) == Elems(SplitWs(Lower(name)))

\* the largest number of words a key of the catalog shares with the query
BestOverlap(catalog, name) ==
  CHOOSE n \in 0..MaxQueryLen + 1 :
    /\ \A i \in 1..Len(catalog) : Overlap(QueryWords(name), catalog[i].key) <= n
    /\ n > 0 => \E i \in 1..Len(catalog) : Overlap(QueryWords(name), catalog[i].key) = n

\* the first entry of the catalog that shares that many
FirstBest(catalog, name) ==
  CHOOSE i \in 1..Len(catalog) :
    /\ Overlap(QueryWords(name), catalog[i].key) = BestOverlap(catalog, name)
    /\ \A j \in 1..(i - 1) :
         Overlap(QueryWords(name), catalog[j].key) < BestOverlap(catalog, name)

\* C2: when the folder name of the query is no key of the catalog and some key
\* shares a word with the query, get_persona returns the record of the first key,
\* in the order of the catalog, that shares the most words with the query.
C2_FirstMaximalOverlap ==
  (IsGet /\ ret.given /\ ~HasKey(personas, FolderName(ret.name))
     /\ BestOverlap(personas, ret.name) >= 1)
    => /\ ret.outcome = "return"
       /\ ret.selected = FirstBest(personas, ret.name)
       /\ ret.value.name = personas[FirstBest(personas, ret.name)].data.name

\* a tie: both keys of the catalog share one word with the query, and the first
\* was returned
C2_Witness ==
  /\ IsGet /\ ret.given /\ ~HasKey(personas, FolderName(ret.name))
  /\ Len(personas) = 2
  /\ Overlap(QueryWords(ret.name), personas[1].key) = 1
  /\ Overlap(QueryWords(ret.name), personas[2].key) = 1
  /\ ret.outcome = "return"
  /\ ret.selected = 1

\* C3: get_persona(name) with a name the caller supplies, the empty one included,
\* whose folder name is no key and which shares no word with a key, fails with
\* KeyError; and get_persona only ever returns a record of the catalog or fails
\* with KeyError.
C3_NotFound ==
  IsGet =>
    /\ ret.outcome \in {"return", "KeyError"}
    /\ (ret.given /\ ~HasKey(personas, FolderName(ret.name))
          /\ \A i \in 1..Len(personas) : Overlap(QueryWords(ret.name), personas[i].key) = 0)
         => ret.outcome = "KeyError"

\* C4: the path of the record get_persona returns is the personas directory
\* joined with the key of the record returned.
C4_PathOfResolvedKey ==
  (IsGet /\ ret.outcome = "return")
    => ret.value.path = personas_dir \o <<"/">> \o personas[ret.selected].key

\* C5: load_personas, when the personas directory can be listed, returns, and the
\* catalog holds exactly the directories whose README.md is well-formed.
C5_MalformedSkipped ==
  (pc = "returned" /\ ret.op = "load_personas" /\ ret.root_ok)
    => /\ ret.outcome = "return"
       /\ Elems(Keys(personas))
            = {d \in Dirs : fs[d].exists /\ ~IsRaised(parse_readme(fs[d].text))}

\* C6: every record of the catalog has a name and a prompt that are not empty.
C6_NameAndPrompt ==
  \A i \in 1..Len(personas) :
    personas[i].data.name # <<>> /\ personas[i].data.prompt # <<>>

\* the record sets nothing but name, prompt and image
ImageOnly(persona) == DOMAIN persona = {"name", "prompt", "image"}

SameMetadata(before, after) ==
  /\ ~IsRaised(after)
  /\ after.entry_message = before.entry_message
  /\ after.cartesia_voice_id = before.cartesia_voice_id
  /\ after.gender = before.gender
  /\ after.relevant_links = before.relevant_links

\* C7: update_persona_image, or save_persona with a record of name, prompt and
\* image alone, on a key whose README.md exists, leaves the entry_message,
\* cartesia_voice_id, gender and relevant_links of the document as they were.
C7_MetadataKept ==
  (/\ pc = "returned"
   /\ \/ ret.op = "update_persona_image"
      \/ ret.op = "save_persona" /\ ImageOnly(ret.persona)
   /\ ret.before.exists
   /\ ~IsRaised(parse_readme(ret.before.text)))
    => SameMetadata(parse_readme(ret.before.text), parse_readme(fs[ret.key].text))

\* loading in the given order yields a record for key with the given gender
LoadsGender(order, key, gender) ==
  /\ ~IsRaised(load_personas(fs, order, TRUE))
  /\ HasKey(load_personas(fs, order, TRUE).personas, key)
  /\ Lookup(load_personas(fs, order, TRUE).personas, key).gender = gender

\* C8: save_persona(key, record) with a record of name and prompt that sets no
\* gender, where key has no README.md, writes the gender drawn from MALE and
\* FEMALE, and loading afterwards yields a record for key with that gender.
C8_DefaultGender ==
  (/\ pc = "returned"
   /\ ret.op = "save_persona"
   /\ "gender" \notin DOMAIN ret.persona
   /\ ~ret.before.exists
   /\ ret.returned)
    => /\ ret.choice \in Genders
       /\ \A order \in Orders : LoadsGender(order, ret.key, ret.choice)

\* C9: for every document parse_readme accepts, the template applied to what it
\* returns is a document that parses to the same name, prompt and metadata.
C9_RoundTrip == trip.stage = "reparsed" => trip.reparsed = trip.parsed

\* C10: a call of get_persona leaves the catalog and the documents as they were,
\* and no record of the catalog has a path or the interaction instructions in its
\* prompt.
C10_CatalogUntouched ==
  [][(pc = "idle" /\ ret'.op = "get_persona")
       => /\ personas' = personas
          /\ fs' = fs
          /\ \A i \in 1..Len(personas') :
               /\ "path" \notin DOMAIN personas'[i].data
               /\ SuffixCount(personas'[i].data.prompt) = 0]_vars

\* get_persona returned a copy with the path and the instructions, of a record
\* stored with neither
C10_Witness ==
  /\ IsGet /\ ret.outcome = "return"
  /\ "path" \in DOMAIN ret.value
  /\ EndsWithSuffix(ret.value.prompt)
  /\ "path" \notin DOMAIN personas[ret.selected].data
  /\ SuffixCount(personas[ret.selected].data.prompt) = 0

\* the i-th call of save_persona made by save_personas is for the i-th key of
\* the catalog and returned what save_persona returns for that record
AttemptOf(i) ==
  /\ ret.results[i].key = personas[i].key
  /\ ret.results[i].returned
       = save_persona(ret.before[personas[i].key], personas[i].data,
                      <<"MALE">>, ret.io[i]).returned

\* C11: save_personas calls save_persona for every entry of the catalog, in
\* order, also after a call that returned False, and returns True exactly when
\* every call returned True; save_persona called directly returns True or
\* False, whatever went wrong.
C11_SaveAll ==
  /\ (pc = "returned" /\ ret.op = "save_personas")
       => /\ Len(ret.results) = Len(personas)
          /\ \A i \in 1..Len(personas) : AttemptOf(i)
          /\ ret.returned = (\A i \in 1..Len(ret.results) : ret.results[i].returned)
  /\ (pc = "returned" /\ ret.op = "save_persona") => ret.returned \in BOOLEAN

\* save_personas returned False on a catalog of two: the first save failed and
\* the second was made and succeeded
C11_Witness ==
  /\ pc = "returned" /\ ret.op = "save_personas"
  /\ Len(personas) = 2 /\ Len(ret.results) = 2
  /\ ~ret.results[1].returned
  /\ ret.results[2].returned
  /\ ~ret.returned
  /\ fs[personas[2].key] # ret.before[personas[2].key]

\* C12: a call of update_persona_image that returns False leaves the catalog
\* as it was before the call.
C12_CatalogKept ==
  [][(pc = "idle" /\ ret'.op = "update_persona_image" /\ ~ret'.returned)
       => personas' = personas]_vars

====
